---- MODULE Spec2Model ----
(***************************************************************************)
(* Model of shiptivitas-t2/server.js: the clients table, the two GET       *)
(* handlers and the PUT /api/v1/clients/:id handler that is meant to       *)
(* reorder the swimlanes.  The handler is synchronous, so every request is *)
(* one atomic step; each statement it runs against the database            *)
(* auto-commits, so an exception thrown half way leaves in the table what  *)
(* the statements before it wrote.                                         *)
(*                                                                         *)
(* The database driver is better-sqlite3.  Its parameter binder is         *)
(* modelled by Bind: values passed positionally only fill anonymous "?"    *)
(* parameters, and an object fills the named parameters by the name        *)
(* without its prefix character.                                           *)
(***************************************************************************)
EXTENDS Integers, Sequences, FiniteSets, TLC

\* ------------------------------------------------------------------ bounds
NumClients == 3     \* rows of the seeded clients table
MaxPriority == 3    \* largest priority a request body carries
MaxFault == 2       \* a store fault may hit the 1st .. MaxFault-th write of a call
PriorityCap == 6    \* requests are served while stored priorities stay below this

\* --------------------------------------------------------- values and rows
Lanes == {"backlog", "in-progress", "complete"}

\* a property missing from the JSON body / query string
UndefinedStatus == "undefined"
UndefinedPriority == << >>

Statuses == Lanes \cup {"done", UndefinedStatus}
Priorities == {UndefinedPriority} \cup {<<p>> : p \in (-1)..MaxPriority}
Ids == 1..(NumClients + 1)

NameOf(id) == <<"name", id>>
DescriptionOf(id) == <<"description", id>>

Client(id, status, priority) ==
    [id |-> id, name |-> NameOf(id), description |-> DescriptionOf(id),
     status |-> status, priority |-> priority]

Min(S) == CHOOSE x \in S : \A y \in S : x <= y

\* ------------------------------------------------------------ the table
\* indices of the rows of a lane
LaneRows(st, lane) == {i \in DOMAIN st : st[i].status = lane}

LanePriorities(st, lane) == {st[i].priority : i \in LaneRows(st, lane)}

\* the priorities of every lane are exactly 1..count(lane)
Dense(st) ==
    \A lane \in Lanes :
        /\ LanePriorities(st, lane) = 1..Cardinality(LaneRows(st, lane))
        /\ Cardinality(LanePriorities(st, lane)) = Cardinality(LaneRows(st, lane))

\* the seeded tables: ids 1..NumClients in rowid order, every lane dense
SeedStores ==
    LET tables == {[i \in 1..NumClients |-> Client(i, lane[i], prio[i])] :
                       lane \in [1..NumClients -> Lanes],
                       prio \in [1..NumClients -> 1..NumClients]}
    IN  {st \in tables : Dense(st)}

HasId(st, id) == \E i \in DOMAIN st : st[i].id = id

RowOf(st, id) == st[CHOOSE i \in DOMAIN st : st[i].id = id]

\* "select * from clients"
SelectAll(st) == st

\* "select * from clients where status = ?"
SelectByStatus(st, status) == SelectSeq(st, LAMBDA r : r.status = status)

\* ------------------------------------------------- the database driver
\* A prepared statement: whether SQLite parses its text, and its parameters
\* in order ("?" anonymous, otherwise the name without its prefix).
ConflictSql == [syntaxOk |-> TRUE, params |-> <<"status", "priority">>]
\* "SELECT * clients WHERE ..." has no FROM
SwimlaneSql == [syntaxOk |-> FALSE, params |-> <<"status", "priority">>]
UpdatePrioritySql == [syntaxOk |-> TRUE, params |-> <<"priority", "id">>]
UpdateClientSql == [syntaxOk |-> TRUE, params |-> <<"status", "priority", "id">>]
InsertSql == [syntaxOk |-> TRUE, params |-> <<"?", "?", "?", "?", "?">>]

\* An argument of get/all/run: a plain value, or an object of named values.
\* Only what the binder looks at is kept: whether a value is undefined, and
\* the keys of an object.
Value(isUndefined) == [kind |-> "value", undef |-> isUndefined, keys |-> {}, undefKeys |-> {}]
Object(keys, undefKeys) == [kind |-> "object", undef |-> FALSE, keys |-> keys, undefKeys |-> undefKeys]

AnonymousCount(params) == Cardinality({k \in DOMAIN params : params[k] = "?"})
NamedParams(params) == {k \in DOMAIN params : params[k] # "?"}

\* binding an object: each named parameter must be an own key of the object
\* (RangeError "Missing named parameter") holding a bindable value (TypeError)
BindObject(params, arg) ==
    LET bad == {k \in NamedParams(params) :
                    params[k] \notin arg.keys \/ params[k] \in arg.undefKeys}
    IN  IF bad = {} THEN "ok"
        ELSE IF params[Min(bad)] \notin arg.keys THEN "RangeError" ELSE "TypeError"

\* The binder walks the arguments in order; `anon` counts the anonymous
\* parameters used so far and `count` the parameters bound.
RECURSIVE BindFrom(_, _, _, _, _)
BindFrom(params, args, i, anon, count) ==
    IF i > Len(args)
    THEN IF count = Len(params) THEN "ok" ELSE "RangeError"
    ELSE IF args[i].kind = "value"
         THEN IF args[i].undef THEN "TypeError"
              ELSE IF anon + 1 > AnonymousCount(params) THEN "RangeError"
              ELSE BindFrom(params, args, i + 1, anon + 1, count + 1)
         ELSE IF BindObject(params, args[i]) # "ok" THEN BindObject(params, args[i])
              ELSE BindFrom(params, args, i + 1, anon,
                            count + Cardinality(NamedParams(params)))

\* "ok", or the exception get/all/run throws before the statement executes
Bind(sql, args) == BindFrom(sql.params, args, 1, 0, 0)

\* db.prepare throws SqliteError on a syntax error
Prepare(sql) == IF sql.syntaxOk THEN "ok" ELSE "SqliteError"

\* "UPDATE clients SET priority = $priority WHERE id = $id"
UpdatePriority(st, id, priority) ==
    [i \in DOMAIN st |-> IF st[i].id = id THEN [st[i] EXCEPT !.priority = priority] ELSE st[i]]

\* "UPDATE clients SET status = $status, priority = $priority WHERE id = $id"
UpdateClient(st, id, status, priority) ==
    [i \in DOMAIN st |->
        IF st[i].id = id THEN [st[i] EXCEPT !.status = status, !.priority = priority]
        ELSE st[i]]

\* "INSERT INTO clients VALUES (?, ?, ?, ?, ?)": id is the table's primary
\* key, so a row whose id is taken is refused and the table is left as it was
InsertRow(st, row) ==
    IF HasId(st, row.id) THEN [store |-> st, threw |-> "SqliteError"]
    ELSE [store |-> Append(st, row), threw |-> "none"]

\* ------------------------------------------------------------- validation
\* Number.isNaN: no value a JSON body can carry is NaN; an id that parseInt
\* cannot read is modelled by an id no row has
IsNaN(v) == FALSE

validateId(st, id) == ~IsNaN(id) /\ HasId(st, id)

validatePriority(priority) == ~IsNaN(priority)

\* ------------------------------------------------------- PUT: the branches
\* What a branch of the handler leaves behind: the table, the array `clients`
\* read at the top of the handler, the exception thrown ("none" if none) and
\* whether it was a write statement that threw.
Outcome(st, clients, threw, writeFailed) ==
    [store |-> st, clients |-> clients, threw |-> threw, writeFailed |-> writeFailed]

\* the rows "WHERE status = $status AND priority >= $priority", in scan order
Swimlane(st, status, p) == SelectSeq(st, LAMBDA r : r.status = status /\ r.priority >= p)

\* clientSwimlane.forEach(updatePriority.run(priority + 1)): one committed
\* write per row of the snapshot; the k-th write of the call fails if the
\* store faults there, and the writes before it stay
RECURSIVE ShiftFrom(_, _, _, _)
ShiftFrom(st, lane, k, fault) ==
    IF k > Len(lane) THEN [store |-> st, threw |-> "none"]
    ELSE IF Bind(UpdatePrioritySql, <<Object({"priority", "id"}, {})>>) # "ok"
         THEN [store |-> st, threw |-> Bind(UpdatePrioritySql, <<Object({"priority", "id"}, {})>>)]
    ELSE IF fault = k THEN [store |-> st, threw |-> "SqliteError"]
    ELSE ShiftFrom(UpdatePriority(st, lane[k].id, lane[k].priority + 1), lane, k + 1, fault)

\* the final "UPDATE clients SET status, priority WHERE id", the n-th write
FinalUpdate(st, clients, id, status, p, fault, n, updateArgs) ==
    IF Bind(UpdateClientSql, updateArgs) # "ok"
    THEN Outcome(st, clients, Bind(UpdateClientSql, updateArgs), TRUE)
    ELSE IF fault = n THEN Outcome(st, clients, "SqliteError", TRUE)
    ELSE Outcome(UpdateClient(st, id, status, p), clients, "none", FALSE)

\* The branch taken when a priority is supplied, over the statements it
\* prepares and the arguments it binds to them.
Reorder(st, clients, id, status, priority, fault, conflictArgs, swimlaneSql, updateArgs) ==
    LET p == priority[1]
        conflict == \E i \in DOMAIN st : st[i].status = status /\ st[i].priority = p
        lane == Swimlane(st, status, p)
        shifted == ShiftFrom(st, lane, 1, fault)
    IN  IF Bind(ConflictSql, conflictArgs) # "ok"
        THEN Outcome(st, clients, Bind(ConflictSql, conflictArgs), FALSE)
        ELSE IF ~conflict
        THEN FinalUpdate(st, clients, id, status, p, fault, 1, updateArgs)
        ELSE IF Prepare(swimlaneSql) # "ok"
        THEN Outcome(st, clients, Prepare(swimlaneSql), FALSE)
        ELSE IF Bind(swimlaneSql, <<Object({"status", "priority"},
                                          IF status = UndefinedStatus THEN {"status"} ELSE {})>>) # "ok"
        THEN Outcome(st, clients, "TypeError", FALSE)
        ELSE IF shifted.threw # "none"
        THEN Outcome(shifted.store, clients, shifted.threw, TRUE)
        ELSE FinalUpdate(shifted.store, clients, id, status, p, fault, Len(lane) + 1, updateArgs)

\* the same branch with every statement well formed and bound by name
ReorderBranchBound(st, clients, id, status, priority, fault) ==
    Reorder(st, clients, id, status, priority, fault,
            <<Object({"status", "priority"}, IF status = UndefinedStatus THEN {"status"} ELSE {})>>,
            [SwimlaneSql EXCEPT !.syntaxOk = TRUE],
            <<Object({"status", "priority", "id"},
                     IF status = UndefinedStatus THEN {"status"} ELSE {})>>)

\* lines 156-194 as written: .get(status, priority) passes two positional
\* values to a statement with two named parameters, the swimlane query lacks
\* FROM, and the final run is handed the keys $status, $priority, $id
ReorderBranch(st, clients, id, status, priority, fault) ==
    Reorder(st, clients, id, status, priority, fault,
            <<Value(status = UndefinedStatus), Value(priority = UndefinedPriority)>>,
            SwimlaneSql,
            <<Object({"$status", "$priority", "$id"}, {})>>)

\* newLowestPriority: the last row of the complete lane as the scan returns
\* it (ORDER BY 'priority' orders by a string literal, so the scan order
\* stands), its priority plus one; an empty lane has no last row
newLowestPriority(st) ==
    LET complete_swimlane == SelectByStatus(st, "complete")
    IN  IF Len(complete_swimlane) = 0 THEN [threw |-> "TypeError", value |-> 0]
        ELSE [threw |-> "none", value |-> complete_swimlane[Len(complete_swimlane)].priority + 1]

\* the INSERT given its first and last arguments in each other's place
InsertedRowSwapped(client, status, clientPriority) ==
    [id |-> clientPriority, name |-> client.name, description |-> client.description,
     status |-> status, priority |-> client.id]

\* the row the INSERT of the complete branch is given
InsertedRow(client, status, clientPriority) ==
    [id |-> client.id, name |-> client.name, description |-> client.description,
     status |-> status, priority |-> clientPriority]

\* lines 195-207: the "mark complete" branch
CompleteBranch(st, clients, id, status, fault) ==
    LET lowest == newLowestPriority(st)
        client == RowOf(clients, id)
        mutated == [i \in DOMAIN clients |->
                       IF clients[i].id = id
                       THEN [clients[i] EXCEPT !.priority = lowest.value, !.status = status]
                       ELSE clients[i]]
        inserted == InsertRow(st, InsertedRow(client, status, lowest.value))
    IN  IF lowest.threw # "none" THEN Outcome(st, clients, lowest.threw, FALSE)
        ELSE IF ~HasId(clients, id) THEN Outcome(st, clients, "TypeError", FALSE)
        ELSE IF Bind(InsertSql, <<Value(FALSE), Value(FALSE), Value(FALSE), Value(FALSE), Value(FALSE)>>) # "ok"
        THEN Outcome(st, mutated, "RangeError", TRUE)
        ELSE IF fault = 1 THEN Outcome(st, mutated, "SqliteError", TRUE)
        ELSE Outcome(inserted.store, mutated, inserted.threw, inserted.threw # "none")

\* a fall-through that persists the status of the body (NULL when missing)
PassThroughPersist(st, clients, id, status) ==
    Outcome([i \in DOMAIN st |->
                IF st[i].id = id
                THEN [st[i] EXCEPT !.status = IF status = UndefinedStatus THEN "NULL" ELSE status]
                ELSE st[i]],
            clients, "none", FALSE)

\* neither branch is taken: nothing is written
PassThrough(st, clients, id, status) == Outcome(st, clients, "none", FALSE)

\* ------------------------------------------------------------ the handlers
Response(code, err, body, writeFailed) ==
    [code |-> code, err |-> err, body |-> body, writeFailed |-> writeFailed]

NoResponse == Response(0, "none", << >>, FALSE)

\* PUT /api/v1/clients/:id.  A failed validateId sends the 400 and does not
\* return: the rest of the handler still runs, and what it sends or throws
\* afterwards cannot replace the response already sent.  An exception thrown
\* by the handler is turned into a 500 by the framework.
PutClient(st, id, status, priority, fault) ==
    LET valid == validateId(st, id)
        clients == SelectAll(st)
        r == IF validatePriority(priority) /\ priority # UndefinedPriority
             THEN ReorderBranch(st, clients, id, status, priority, fault)
             ELSE IF status = "complete"
             THEN CompleteBranch(st, clients, id, status, fault)
             ELSE PassThrough(st, clients, id, status)
    IN  [store |-> r.store,
         resp |-> IF ~valid THEN Response(400, "InvalidId", << >>, r.writeFailed)
                  ELSE IF r.threw # "none" THEN Response(500, r.threw, << >>, r.writeFailed)
                  ELSE Response(200, "none", r.clients, FALSE)]

\* GET /api/v1/clients?status=
GetClients(st, status) ==
    IF status # UndefinedStatus
    THEN IF status \notin Lanes THEN Response(400, "InvalidStatus", << >>, FALSE)
         ELSE Response(200, "none", SelectByStatus(st, status), FALSE)
    ELSE Response(200, "none", SelectAll(st), FALSE)

\* GET /api/v1/clients/:id (the 400 is sent and the second send throws)
GetClient(st, id) ==
    IF ~validateId(st, id) THEN Response(400, "InvalidId", << >>, FALSE)
    ELSE Response(200, "none", <<RowOf(st, id)>>, FALSE)

\* ---------------------------------------------------------------- the state
VARIABLES
    store,   \* the clients table, in rowid order
    pre,     \* the table as it was when the request being answered arrived
    req,     \* the request being answered
    resp     \* its response

vars == <<store, pre, req, resp>>

Request(method, id, status, priority, fault) ==
    [method |-> method, id |-> id, status |-> status, priority |-> priority, fault |-> fault]

NoRequest == Request("none", 0, UndefinedStatus, UndefinedPriority, 0)

Idle == req = NoRequest

Init ==
    /\ store \in SeedStores
    /\ pre = store
    /\ req = NoRequest
    /\ resp = NoResponse

PutRequest ==
    \E id \in Ids, status \in Statuses, priority \in Priorities, fault \in 0..MaxFault :
        /\ Idle
        /\ \A i \in DOMAIN store : store[i].priority < PriorityCap
        /\ pre' = store
        /\ req' = Request("PUT", id, status, priority, fault)
        /\ store' = PutClient(store, id, status, priority, fault).store
        /\ resp' = PutClient(store, id, status, priority, fault).resp

GetClientsRequest ==
    \E status \in Statuses :
        /\ Idle
        /\ pre' = store
        /\ req' = Request("GET", 0, status, UndefinedPriority, 0)
        /\ resp' = GetClients(store, status)
        /\ UNCHANGED store

GetClientRequest ==
    \E id \in Ids :
        /\ Idle
        /\ pre' = store
        /\ req' = Request("GET", id, UndefinedStatus, UndefinedPriority, 0)
        /\ resp' = GetClient(store, id)
        /\ UNCHANGED store

\* the response has gone out; the server waits for the next request
EndRequest ==
    /\ ~Idle
    /\ req' = NoRequest
    /\ resp' = NoResponse
    /\ pre' = store
    /\ UNCHANGED store

Next == PutRequest \/ GetClientsRequest \/ GetClientRequest \/ EndRequest

Spec == Init /\ [][Next]_vars

\* ------------------------------------------------------------ the claims
Max(S) == CHOOSE x \in S : \A y \in S : x >= y

PutDone == req.method = "PUT"

\* a PUT for a row that exists, answered without an injected store fault
PutOnClient == PutDone /\ HasId(pre, req.id) /\ req.fault = 0

HasPriority == req.priority # UndefinedPriority

TargetLane == IF req.status # UndefinedStatus THEN req.status ELSE RowOf(pre, req.id).status

\* every row but the one the request names is as it was
OthersUnchanged == \A i \in DOMAIN pre : pre[i].id # req.id => RowOf(store, pre[i].id) = pre[i]

ConflictCase ==
    /\ PutOnClient /\ HasPriority
    /\ TargetLane \in Lanes
    /\ \E i \in DOMAIN pre : /\ pre[i].id # req.id
                             /\ pre[i].status = TargetLane
                             /\ pre[i].priority = req.priority[1]

\* C2: after a PUT whose priority p is held by another row of the target
\* lane, the moved row is in the target lane at p, the other rows of that lane
\* that were at p or below it in the lane are one further down, and those
\* above p are where they were.
ConflictInsertion ==
    ConflictCase =>
        /\ RowOf(store, req.id).status = TargetLane
        /\ RowOf(store, req.id).priority = req.priority[1]
        /\ \A i \in DOMAIN pre :
              (pre[i].id # req.id /\ pre[i].status = TargetLane) =>
                  RowOf(store, pre[i].id).priority =
                      IF pre[i].priority >= req.priority[1]
                      THEN pre[i].priority + 1 ELSE pre[i].priority

BadId == ~HasId(pre, req.id)
BadPriority == HasPriority /\ req.priority[1] < 0
BadStatus == req.status \notin (Lanes \cup {UndefinedStatus})

\* C3: a PUT that fails validation is answered with the error of the failed
\* check (InvalidId, InvalidPriority, InvalidStatus) and changes no row.
InvalidInputRejected ==
    PutDone =>
        /\ BadId => resp.err = "InvalidId"
        /\ (~BadId /\ BadPriority) => resp.err = "InvalidPriority"
        /\ (~BadId /\ ~BadPriority /\ BadStatus) => resp.err = "InvalidStatus"
        /\ (BadId \/ BadPriority \/ BadStatus) => store = pre

MarkComplete == PutOnClient /\ ~HasPriority /\ req.status = "complete"

\* C4: after a PUT with status complete and no priority, the complete lane
\* holding rows with largest priority m, the row is complete at m + 1 and
\* every other row is as it was.
AppendToComplete ==
    (MarkComplete /\ LaneRows(pre, "complete") # {}) =>
        /\ RowOf(store, req.id).status = "complete"
        /\ RowOf(store, req.id).priority = Max(LanePriorities(pre, "complete")) + 1
        /\ OthersUnchanged

\* C5: the table always holds exactly the seeded ids, each once, with the
\* name and description it was seeded with.
RecordsKept ==
    /\ Len(store) = NumClients
    /\ \A id \in 1..NumClients : Cardinality({i \in DOMAIN store : store[i].id = id}) = 1
    /\ \A i \in DOMAIN store : /\ store[i].name = NameOf(store[i].id)
                               /\ store[i].description = DescriptionOf(store[i].id)

\* the mark-complete branch ran its INSERT and the table refused it
RecordsKeptWitness ==
    /\ MarkComplete /\ LaneRows(pre, "complete") # {}
    /\ resp.code = 500 /\ resp.err = "SqliteError"
    /\ Len(store) = NumClients

\* C6: a PUT with status complete and no priority on an empty complete lane
\* is answered with the EmptyLane error, and changes no row.
EmptyLaneGuard ==
    (MarkComplete /\ LaneRows(pre, "complete") = {}) =>
        /\ resp.err = "EmptyLane"
        /\ store = pre

NoOpCase ==
    PutDone /\ HasId(pre, req.id) /\ ~HasPriority /\ req.status = UndefinedStatus

\* C8: a PUT for an existing id with neither status nor priority leaves every
\* row of the table as it was.
NoOpUnchanged == NoOpCase => store = pre

NoOpWitness == NoOpCase /\ resp.code = 200 /\ store = pre

PriorityOnlyKeepsLane ==
    (PutOnClient /\ HasPriority /\ req.priority[1] >= 1 /\ req.status = UndefinedStatus) =>
        /\ RowOf(store, req.id).status = RowOf(pre, req.id).status
        /\ RowOf(store, req.id).status \in Lanes
        /\ RowOf(store, req.id).priority = req.priority[1]

====
